---- MODULE Spec2Model ----
(***************************************************************************)
(* Verification layer of nmt-rs: the generic range proof `Proof<M>`        *)
(* (src/simple_merkle/proof.rs) and the namespace proof `NamespaceProof`   *)
(* (src/nmt_proof.rs).  The state is one NamespaceProof value together     *)
(* with a record of the last public call made on it (its inputs, what it   *)
(* returned, how many leaves it hashed and which collaborator it called).  *)
(***************************************************************************)
EXTENDS Integers, Sequences, FiniteSets, TLC

\* ---------------------------------------------------------------- bounds
\* longest siblings vector, largest start / end index, longest leaf list
MaxSiblings == 2
MaxIdx == 3
MaxLeaves == 2

\* `start` and `end` are u32.  A u32 or usize value that may exceed the
\* checker's integers is kept as two 16-bit limbs, value = hi * 2^16 + lo.
Limb == 65536

Wide(n) == [hi |-> n \div Limb, lo |-> n % Limb]

\* ---------------------------------------------------------------- values
SeqsUpTo(S, n) == UNION {[1..k -> S] : k \in 0..n}

\* Option<T>: None is the empty sequence, Some(x) the one-element sequence
None == <<>>

Some(x) == <<x>>

\* Digests, namespace ids and leaf bytes are opaque to this layer: it only
\* moves them around, so two distinguishable values of each are kept.
\* M::Output values that occur as siblings, roots, boundary leaves
Digests == {1, 2}

Namespaces == {1, 2}

RawData == {1, 2}

\* RangeProofError, as far as the verification layer names it, plus Ok(())
RangeProofResults == {"Ok", "WrongAmountOfLeavesProvided", "MalformedProof", "RootMismatch"}

\* #[derive(Default)] on Proof<M>
DefaultProof == [siblings |-> <<>>, start |-> 0, end |-> 0]

Proofs == [siblings : SeqsUpTo(Digests, MaxSiblings), start : 0..MaxIdx, end : 0..MaxIdx]

PresenceProof(proof, ignore_max_ns) ==
  [variant |-> "PresenceProof", proof |-> proof, ignore_max_ns |-> ignore_max_ns]

AbsenceProof(proof, ignore_max_ns, leaf) ==
  [variant |-> "AbsenceProof", proof |-> proof, ignore_max_ns |-> ignore_max_ns, leaf |-> leaf]

NamespaceProofs ==
  {PresenceProof(p, b) : p \in Proofs, b \in BOOLEAN}
    \cup {AbsenceProof(p, b, l) : p \in Proofs, b \in BOOLEAN,
                                  l \in {None} \cup {Some(d) : d \in Digests}}

\* ---------------------------------------------------------------- arithmetic
\* `a - b` on u32: with overflow checks the subtraction panics when b > a,
\* without them it wraps modulo 2^32
\* (2^32 - d = (2^32 - 1) - (d - 1), subtracted limb by limb)
U32Sub(a, b, overflow_checks) ==
  IF a >= b THEN [panic |-> FALSE, val |-> Wide(a - b)]
  ELSE IF overflow_checks THEN [panic |-> TRUE, val |-> Wide(0)]
  ELSE [panic |-> FALSE, val |-> [hi |-> (Limb - 1) - ((b - a - 1) \div Limb),
                                  lo |-> (Limb - 1) - ((b - a - 1) % Limb)]]

\* u32::saturating_sub
saturating_sub(a, b) == IF a >= b THEN a - b ELSE 0

\* `&s[i]` on a slice, i counted from 0: panics outside 0..len-1
SliceIndex(s, i) ==
  IF i >= 0 /\ i < Len(s) THEN [panic |-> FALSE, val |-> Some(s[i + 1])]
  ELSE [panic |-> TRUE, val |-> None]

\* ---------------------------------------------------------------- collaborators
RECURSIVE compute_num_left_siblings(_)
\* number of one bits of the start index
compute_num_left_siblings(node_idx) ==
  IF node_idx = 0 THEN 0
  ELSE (node_idx % 2) + compute_num_left_siblings(node_idx \div 2)

\* NamespacedHash::hash_leaf: a digest that embeds the namespace and the data
hash_leaf(data, namespace) ==
  Cardinality(Digests) + (namespace - 1) * Cardinality(RawData) + data

\* MerkleTree::new(): the hasher M::default()
DefaultHasher == None

\* M::with_ignore_max_ns(flag)
with_ignore_max_ns(flag) == Some(flag)

\* one call of check_range_proof: its arguments and what it answered
check_range_proof(hasher, root, leaf_hashes, siblings, leaves_start_idx, answer) ==
  [fn |-> "check_range_proof", hasher |-> hasher, root |-> root, leaves |-> leaf_hashes,
   siblings |-> siblings, start |-> leaves_start_idx, answer |-> answer]

\* one call of verify_namespace: its arguments and what it answered
verify_namespace(hasher, root, raw_leaves, namespace, proof, answer) ==
  [fn |-> "verify_namespace", hasher |-> hasher, root |-> root, leaves |-> raw_leaves,
   namespace |-> namespace, proof |-> proof, answer |-> answer]

\* what a verification entry point did: its return value (or "Panic"), the
\* proof length it computed (None if it never computed one), the number of
\* leaves it hashed and the collaborator call it made (None if it made none)
Outcome(result, proof_len, hashed, delegate) ==
  [result |-> result, proof_len |-> proof_len, hashed |-> hashed, delegate |-> delegate]

\* ---------------------------------------------------------------- Proof<M>
Proof_siblings(p) == p.siblings

Proof_start_idx(p) == p.start

Proof_end_idx(p) == p.end

Proof_range_len_Wrapping(p) == U32Sub(p.end, p.start, FALSE).val

\* `end.saturating_sub(start)` as usize
Proof_range_len(p) == Wide(saturating_sub(p.end, p.start))

Proof_verify_range(p, root, leaf_hashes, answer) ==
  LET siblings == p.siblings
  IN IF Wide(Len(leaf_hashes)) # Proof_range_len(p)
     THEN Outcome("WrongAmountOfLeavesProvided", Some(Proof_range_len(p)), 0, None)
     ELSE LET call == check_range_proof(DefaultHasher, root, leaf_hashes, siblings, p.start, answer)
          IN Outcome(call.answer, Some(Proof_range_len(p)), 0, Some(call))

Proof_leftmost_right_sibling(p) ==
  LET siblings == Proof_siblings(p)
      num_left_siblings == compute_num_left_siblings(Proof_start_idx(p))
  IN IF Len(siblings) > num_left_siblings
     THEN SliceIndex(siblings, num_left_siblings)
     ELSE [panic |-> FALSE, val |-> None]

Proof_rightmost_left_sibling_NoLenCheck(p) ==
  LET siblings == Proof_siblings(p)
      num_left_siblings == compute_num_left_siblings(Proof_start_idx(p))
  IN IF num_left_siblings # 0
     THEN SliceIndex(siblings, num_left_siblings - 1)
     ELSE [panic |-> FALSE, val |-> None]

Proof_rightmost_left_sibling(p) ==
  LET siblings == Proof_siblings(p)
      num_left_siblings == compute_num_left_siblings(Proof_start_idx(p))
  IN IF num_left_siblings # 0 /\ num_left_siblings <= Len(siblings)
     THEN SliceIndex(siblings, num_left_siblings - 1)
     ELSE [panic |-> FALSE, val |-> None]

\* ---------------------------------------------------------------- NamespaceProof
NamespaceProof_is_of_absence(self) ==
  CASE self.variant = "AbsenceProof" -> TRUE
    [] self.variant = "PresenceProof" -> FALSE

NamespaceProof_is_of_presence(self) == ~NamespaceProof_is_of_absence(self)

NamespaceProof_ignores_max_ns(self) ==
  CASE self.variant \in {"AbsenceProof", "PresenceProof"} -> self.ignore_max_ns

NamespaceProof_siblings(self) ==
  CASE self.variant \in {"AbsenceProof", "PresenceProof"} -> Proof_siblings(self.proof)

NamespaceProof_start_idx(self) ==
  CASE self.variant \in {"AbsenceProof", "PresenceProof"} -> Proof_start_idx(self.proof)

NamespaceProof_end_idx(self) ==
  CASE self.variant \in {"AbsenceProof", "PresenceProof"} -> Proof_end_idx(self.proof)

NamespaceProof_leftmost_right_sibling_FromEnd(self) ==
  LET siblings == NamespaceProof_siblings(self)
      num_left_siblings == compute_num_left_siblings(NamespaceProof_end_idx(self))
  IN IF Len(siblings) > num_left_siblings
     THEN SliceIndex(siblings, num_left_siblings)
     ELSE [panic |-> FALSE, val |-> None]

NamespaceProof_leftmost_right_sibling(self) ==
  LET siblings == NamespaceProof_siblings(self)
      num_left_siblings == compute_num_left_siblings(NamespaceProof_start_idx(self))
  IN IF Len(siblings) > num_left_siblings
     THEN SliceIndex(siblings, num_left_siblings)
     ELSE [panic |-> FALSE, val |-> None]

NamespaceProof_rightmost_left_sibling(self) ==
  LET siblings == NamespaceProof_siblings(self)
      num_left_siblings == compute_num_left_siblings(NamespaceProof_start_idx(self))
  IN IF num_left_siblings # 0 /\ num_left_siblings <= Len(siblings)
     THEN SliceIndex(siblings, num_left_siblings - 1)
     ELSE [panic |-> FALSE, val |-> None]

NamespaceProof_verify_complete_namespace(self, root, raw_leaves, namespace, overflow_checks, answer) ==
  LET sub == U32Sub(NamespaceProof_end_idx(self), NamespaceProof_start_idx(self), overflow_checks)
      proof_len == sub.val
  IN IF sub.panic THEN Outcome("Panic", None, 0, None)
     ELSE IF NamespaceProof_is_of_presence(self) /\ Wide(Len(raw_leaves)) # proof_len
     THEN Outcome("WrongAmountOfLeavesProvided", Some(proof_len), 0, None)
     ELSE LET call == verify_namespace(with_ignore_max_ns(NamespaceProof_ignores_max_ns(self)),
                                       root, raw_leaves, namespace, self, answer)
          IN Outcome(call.answer, Some(proof_len), 0, Some(call))

NamespaceProof_verify_range_LenFirst(self, root, raw_leaves, leaf_namespace, overflow_checks, answer) ==
  LET sub == U32Sub(NamespaceProof_end_idx(self), NamespaceProof_start_idx(self), overflow_checks)
      proof_len == sub.val
  IN IF sub.panic THEN Outcome("Panic", None, 0, None)
     ELSE IF Wide(Len(raw_leaves)) # proof_len
     THEN Outcome("WrongAmountOfLeavesProvided", Some(proof_len), 0, None)
     ELSE IF NamespaceProof_is_of_absence(self)
     THEN Outcome("MalformedProof", Some(proof_len), 0, None)
     ELSE LET leaf_hashes == [i \in 1..Len(raw_leaves) |-> hash_leaf(raw_leaves[i], leaf_namespace)]
              call == check_range_proof(with_ignore_max_ns(NamespaceProof_ignores_max_ns(self)),
                                        root, leaf_hashes, NamespaceProof_siblings(self),
                                        NamespaceProof_start_idx(self), answer)
          IN Outcome(call.answer, Some(proof_len), Len(leaf_hashes), Some(call))

NamespaceProof_verify_range(self, root, raw_leaves, leaf_namespace, overflow_checks, answer) ==
  IF NamespaceProof_is_of_absence(self) THEN Outcome("MalformedProof", None, 0, None)
  ELSE
  LET sub == U32Sub(NamespaceProof_end_idx(self), NamespaceProof_start_idx(self), overflow_checks)
      proof_len == sub.val
  IN IF sub.panic THEN Outcome("Panic", None, 0, None)
     ELSE IF Wide(Len(raw_leaves)) # proof_len
     THEN Outcome("WrongAmountOfLeavesProvided", Some(proof_len), 0, None)
     ELSE LET leaf_hashes == [i \in 1..Len(raw_leaves) |-> hash_leaf(raw_leaves[i], leaf_namespace)]
              siblings == NamespaceProof_siblings(self)
              call == check_range_proof(with_ignore_max_ns(NamespaceProof_ignores_max_ns(self)),
                                        root, leaf_hashes, siblings,
                                        NamespaceProof_start_idx(self), answer)
          IN Outcome(call.answer, Some(proof_len), Len(leaf_hashes), Some(call))

\* std::mem::take(proof): the value moved out and what is left in its place
mem_take(proof) == [taken |-> proof, left |-> DefaultProof]

NamespaceProof_convert_to_absence_proof_Placeholder(self, leaf) ==
  IF self.variant = "AbsenceProof" THEN self
  ELSE LET after_take == [self EXCEPT !.proof = mem_take(self.proof).left]
       IN AbsenceProof(after_take.proof, after_take.ignore_max_ns, Some(leaf))

NamespaceProof_convert_to_absence_proof_Overwrite(self, leaf) ==
  AbsenceProof(self.proof, self.ignore_max_ns, Some(leaf))

NamespaceProof_convert_to_absence_proof_Toggle(self, leaf) ==
  IF self.variant = "AbsenceProof" THEN PresenceProof(self.proof, self.ignore_max_ns)
  ELSE AbsenceProof(self.proof, self.ignore_max_ns, Some(leaf))

NamespaceProof_convert_to_absence_proof(self, leaf) ==
  IF self.variant = "AbsenceProof" THEN self
  ELSE LET pf == mem_take(self.proof).taken
           after_take == [self EXCEPT !.proof = mem_take(self.proof).left]
       IN AbsenceProof(pf, after_take.ignore_max_ns, Some(leaf))

\* ---------------------------------------------------------------- state
\* nsproof: the NamespaceProof value the caller owns
\* last:    the call in progress on it ("idle" between calls): its inputs, the
\*          proof before the call, and what the call did
VARIABLES nsproof, last

vars == <<nsproof, last>>

\* `prior` remembers, for a conversion or an accessor call, whether the call
\* before it was a conversion of a PresenceProof
NoPrior == [op |-> "-", variant |-> "-"]

Call(op, pre, root, leaves, namespace, leaf, out, value, prior) ==
  [op |-> op, pre |-> pre, root |-> root, leaves |-> leaves, namespace |-> namespace,
   leaf |-> leaf, result |-> out.result, proof_len |-> out.proof_len,
   hashed |-> out.hashed, delegate |-> out.delegate, value |-> value, prior |-> prior]

Idle(self, prior) ==
  Call("idle", self, None, <<>>, None, None, Outcome("Returned", None, 0, None), None, prior)

Returned(r) == Outcome(IF r.panic THEN "Panic" ELSE "Returned", None, 0, None)

Query(op, r) ==
  /\ last.op = "idle"
  /\ last' = Call(op, nsproof, None, <<>>, None, None, Returned(r), r.val, last.prior)
  /\ UNCHANGED nsproof

Value(v) == [panic |-> FALSE, val |-> Some(v)]

Init ==
  /\ nsproof \in NamespaceProofs
  /\ last = Idle(nsproof, NoPrior)

NsVerifyRange ==
  \E root \in Digests, raw_leaves \in SeqsUpTo(RawData, MaxLeaves), ns \in Namespaces,
     overflow_checks \in BOOLEAN, answer \in RangeProofResults :
    /\ last.op = "idle"
    /\ last' = Call("NamespaceProof::verify_range", nsproof, Some(root), raw_leaves, Some(ns), None,
                    NamespaceProof_verify_range(nsproof, root, raw_leaves, ns, overflow_checks, answer),
                    None, NoPrior)
    /\ UNCHANGED nsproof

NsVerifyCompleteNamespace ==
  \E root \in Digests, raw_leaves \in SeqsUpTo(RawData, MaxLeaves), ns \in Namespaces,
     overflow_checks \in BOOLEAN, answer \in RangeProofResults :
    /\ last.op = "idle"
    /\ last' = Call("NamespaceProof::verify_complete_namespace", nsproof, Some(root), raw_leaves,
                    Some(ns), None,
                    NamespaceProof_verify_complete_namespace(nsproof, root, raw_leaves, ns,
                                                             overflow_checks, answer),
                    None, NoPrior)
    /\ UNCHANGED nsproof

NsConvertToAbsenceProof ==
  \E leaf \in Digests :
    /\ last.op = "idle"
    /\ nsproof' = NamespaceProof_convert_to_absence_proof(nsproof, leaf)
    /\ last' = Call("NamespaceProof::convert_to_absence_proof", nsproof, None, <<>>, None,
                    Some(leaf), Outcome("Returned", None, 0, None), None, last.prior)

ProofVerifyRange ==
  \E root \in Digests, leaf_hashes \in SeqsUpTo(Digests, MaxLeaves), answer \in RangeProofResults :
    /\ last.op = "idle"
    /\ last' = Call("Proof::verify_range", nsproof, Some(root), leaf_hashes, None, None,
                    Proof_verify_range(nsproof.proof, root, leaf_hashes, answer), None, NoPrior)
    /\ UNCHANGED nsproof

ProofSiblings == Query("Proof::siblings", [panic |-> FALSE, val |-> Proof_siblings(nsproof.proof)])

ProofStartIdx == Query("Proof::start_idx", Value(Proof_start_idx(nsproof.proof)))

ProofEndIdx == Query("Proof::end_idx", Value(Proof_end_idx(nsproof.proof)))

ProofRangeLen == Query("Proof::range_len", Value(Proof_range_len(nsproof.proof)))

ProofLeftmostRightSibling ==
  Query("Proof::leftmost_right_sibling", Proof_leftmost_right_sibling(nsproof.proof))

ProofRightmostLeftSibling ==
  Query("Proof::rightmost_left_sibling", Proof_rightmost_left_sibling(nsproof.proof))

NsSiblings ==
  Query("NamespaceProof::siblings", [panic |-> FALSE, val |-> NamespaceProof_siblings(nsproof)])

NsStartIdx == Query("NamespaceProof::start_idx", Value(NamespaceProof_start_idx(nsproof)))

NsEndIdx == Query("NamespaceProof::end_idx", Value(NamespaceProof_end_idx(nsproof)))

NsLeftmostRightSibling ==
  Query("NamespaceProof::leftmost_right_sibling", NamespaceProof_leftmost_right_sibling(nsproof))

NsRightmostLeftSibling ==
  Query("NamespaceProof::rightmost_left_sibling", NamespaceProof_rightmost_left_sibling(nsproof))

NsIsOfAbsence == Query("NamespaceProof::is_of_absence", Value(NamespaceProof_is_of_absence(nsproof)))

NsIsOfPresence == Query("NamespaceProof::is_of_presence", Value(NamespaceProof_is_of_presence(nsproof)))

\* the call returns and the caller drops its result; the proof stays as the
\* call left it
Return ==
  /\ last.op # "idle"
  /\ last' = Idle(nsproof,
                  IF /\ last.op = "NamespaceProof::convert_to_absence_proof"
                     /\ last.pre.variant = "PresenceProof"
                  THEN [op |-> last.op, variant |-> last.pre.variant] ELSE NoPrior)
  /\ UNCHANGED nsproof

Next ==
  \/ NsVerifyRange
  \/ NsVerifyCompleteNamespace
  \/ NsConvertToAbsenceProof
  \/ ProofVerifyRange
  \/ ProofSiblings
  \/ ProofStartIdx
  \/ ProofEndIdx
  \/ ProofRangeLen
  \/ ProofLeftmostRightSibling
  \/ ProofRightmostLeftSibling
  \/ NsSiblings
  \/ NsStartIdx
  \/ NsEndIdx
  \/ NsLeftmostRightSibling
  \/ NsRightmostLeftSibling
  \/ NsIsOfAbsence
  \/ NsIsOfPresence
  \/ Return

Spec == Init /\ [][Next]_vars

\* ---------------------------------------------------------------- properties
HashLeaves(raw_leaves, namespace) ==
  [i \in 1..Len(raw_leaves) |-> hash_leaf(raw_leaves[i], namespace)]

IsNsVerifyRange == last.op = "NamespaceProof::verify_range"

IsNsVerifyComplete == last.op = "NamespaceProof::verify_complete_namespace"

IsConvert == last.op = "NamespaceProof::convert_to_absence_proof"

IsProofVerifyRange == last.op = "Proof::verify_range"

\* C1: NamespaceProof::verify_range and verify_complete_namespace never
\* panic, on any proof (end < start included), and every proof length they
\* compute is the saturating range length of Proof::range_len.
C1_NoPanicSaturatingLen ==
  (IsNsVerifyRange \/ IsNsVerifyComplete) =>
    /\ last.result # "Panic"
    /\ last.proof_len # None => last.proof_len = Some(Proof_range_len(last.pre.proof))

\* C2: verify_range on an AbsenceProof returns MalformedProof whatever the
\* root, the leaves and the namespace are; it computes no proof length,
\* hashes no leaf and calls no range-proof checker.
C2_AbsenceIsMalformed ==
  (IsNsVerifyRange /\ last.pre.variant = "AbsenceProof") =>
    /\ last.result = "MalformedProof"
    /\ last.proof_len = None
    /\ last.hashed = 0
    /\ last.delegate = None

C2_Witness ==
  /\ IsNsVerifyRange
  /\ last.pre.variant = "AbsenceProof"
  /\ Len(last.leaves) > 0
  /\ Wide(Len(last.leaves)) # Proof_range_len(last.pre.proof)
  /\ last.result = "MalformedProof"

\* C3: verify_range on a PresenceProof returns WrongAmountOfLeavesProvided,
\* with no leaf hashed and no checker call, when the number of raw leaves
\* differs from range_len(); otherwise it returns exactly what
\* check_range_proof answers on the hashed leaves, the siblings and start.
C3_PresenceLeafCount ==
  (IsNsVerifyRange /\ last.pre.variant = "PresenceProof") =>
    IF Wide(Len(last.leaves)) # Proof_range_len(last.pre.proof)
    THEN /\ last.result = "WrongAmountOfLeavesProvided"
         /\ last.hashed = 0
         /\ last.delegate = None
    ELSE /\ last.delegate # None
         /\ last.delegate[1].fn = "check_range_proof"
         /\ last.delegate[1].root = last.root[1]
         /\ last.delegate[1].leaves = HashLeaves(last.leaves, last.namespace[1])
         /\ last.delegate[1].siblings = last.pre.proof.siblings
         /\ last.delegate[1].start = last.pre.proof.start
         /\ last.result = last.delegate[1].answer

\* C4: verify_complete_namespace returns WrongAmountOfLeavesProvided without
\* delegating exactly when the proof is a PresenceProof and the number of raw
\* leaves differs from range_len(); in every other case it calls
\* verify_namespace with a hasher configured with the proof's ignore_max_ns
\* and returns its answer unchanged.
C4_CompleteNamespaceLeafCount ==
  IsNsVerifyComplete =>
    IF /\ last.pre.variant = "PresenceProof"
       /\ Wide(Len(last.leaves)) # Proof_range_len(last.pre.proof)
    THEN /\ last.result = "WrongAmountOfLeavesProvided"
         /\ last.delegate = None
    ELSE /\ last.delegate # None
         /\ last.delegate[1].fn = "verify_namespace"
         /\ last.delegate[1].hasher = with_ignore_max_ns(last.pre.ignore_max_ns)
         /\ last.delegate[1].root = last.root[1]
         /\ last.delegate[1].leaves = last.leaves
         /\ last.delegate[1].namespace = last.namespace[1]
         /\ last.delegate[1].proof = last.pre
         /\ last.result = last.delegate[1].answer

\* C5: convert_to_absence_proof(leaf) on a PresenceProof leaves an
\* AbsenceProof with the siblings, start and end of the proof before the
\* call, the ignore_max_ns of before the call, and leaf = Some(leaf).
C5_ConvertKeepsProof ==
  (IsConvert /\ last.pre.variant = "PresenceProof") =>
    /\ nsproof.variant = "AbsenceProof"
    /\ nsproof.proof.siblings = last.pre.proof.siblings
    /\ nsproof.proof.start = last.pre.proof.start
    /\ nsproof.proof.end = last.pre.proof.end
    /\ nsproof.ignore_max_ns = last.pre.ignore_max_ns
    /\ nsproof.leaf = last.leaf

C5_Witness ==
  /\ IsConvert
  /\ last.pre.variant = "PresenceProof"
  /\ Len(last.pre.proof.siblings) = MaxSiblings
  /\ last.pre.proof.start > 0
  /\ last.pre.proof.end > last.pre.proof.start
  /\ last.pre.ignore_max_ns
  /\ nsproof.variant = "AbsenceProof"

\* C6: convert_to_absence_proof on a proof that is already an AbsenceProof
\* changes no field, whatever leaf it is given: the leaf stays the one the
\* proof had, in particular the one an earlier conversion set.
C6_ConvertIdempotent ==
  (IsConvert /\ last.pre.variant = "AbsenceProof") => nsproof = last.pre

C6_Witness ==
  /\ IsConvert
  /\ last.prior = [op |-> "NamespaceProof::convert_to_absence_proof", variant |-> "PresenceProof"]
  /\ last.pre.variant = "AbsenceProof"
  /\ last.pre.leaf # None
  /\ last.leaf # last.pre.leaf
  /\ nsproof.leaf = last.pre.leaf

\* C7: in every state exactly one of is_of_absence and is_of_presence holds;
\* once is_of_absence holds it holds in every later state; the proof changes
\* only in a convert_to_absence_proof call on a PresenceProof, which makes it
\* an AbsenceProof.
C7_VariantOneWay ==
  /\ [](NamespaceProof_is_of_absence(nsproof) # NamespaceProof_is_of_presence(nsproof))
  /\ [][/\ NamespaceProof_is_of_absence(nsproof) => NamespaceProof_is_of_absence(nsproof')
        /\ nsproof' # nsproof =>
             /\ last'.op = "NamespaceProof::convert_to_absence_proof"
             /\ NamespaceProof_is_of_presence(nsproof)
             /\ NamespaceProof_is_of_absence(nsproof')]_vars

C7_Witness ==
  /\ last.op = "NamespaceProof::is_of_absence"
  /\ last.prior = [op |-> "NamespaceProof::convert_to_absence_proof", variant |-> "PresenceProof"]
  /\ last.value = Some(TRUE)
  /\ ~NamespaceProof_is_of_presence(nsproof)
  /\ nsproof = last.pre

\* C8: with k = compute_num_left_siblings(start), rightmost_left_sibling is
\* the sibling at index k-1 when 0 < k <= siblings.len() and None otherwise,
\* leftmost_right_sibling is the sibling at index k when siblings.len() > k
\* and None otherwise, and neither indexes out of bounds.
C8_BoundarySiblings ==
  LET siblings == last.pre.proof.siblings
      k == compute_num_left_siblings(last.pre.proof.start)
  IN /\ last.op = "Proof::rightmost_left_sibling" =>
          /\ last.result # "Panic"
          /\ last.value = IF k > 0 /\ k <= Len(siblings) THEN Some(siblings[k]) ELSE None
          /\ last.pre.proof.start = 0 => last.value = None
     /\ last.op = "Proof::leftmost_right_sibling" =>
          /\ last.result # "Panic"
          /\ last.value = IF Len(siblings) > k THEN Some(siblings[k + 1]) ELSE None
          /\ Len(siblings) = k => last.value = None

C8_Witness ==
  /\ last.op = "Proof::rightmost_left_sibling"
  /\ compute_num_left_siblings(last.pre.proof.start) = 2
  /\ Len(last.pre.proof.siblings) = 1
  /\ last.value = None

\* C9: Proof::verify_range returns WrongAmountOfLeavesProvided without
\* calling the checker when the number of leaf hashes differs from the
\* saturating end - start; otherwise it returns exactly what
\* check_range_proof(root, leaf_hashes, siblings, start) answers.  The default
\* proof rejects every nonempty list with WrongAmountOfLeavesProvided.
C9_ProofVerifyRange ==
  IsProofVerifyRange =>
    LET p == last.pre.proof
    IN /\ IF Len(last.leaves) # saturating_sub(p.end, p.start)
          THEN /\ last.result = "WrongAmountOfLeavesProvided"
               /\ last.delegate = None
          ELSE /\ last.delegate # None
               /\ last.delegate[1].fn = "check_range_proof"
               /\ last.delegate[1].root = last.root[1]
               /\ last.delegate[1].leaves = last.leaves
               /\ last.delegate[1].siblings = p.siblings
               /\ last.delegate[1].start = p.start
               /\ last.result = last.delegate[1].answer
       /\ (p = DefaultProof /\ last.leaves # <<>>) =>
            last.result = "WrongAmountOfLeavesProvided"

C9_Witness ==
  /\ IsProofVerifyRange
  /\ last.pre.proof.end < last.pre.proof.start
  /\ last.leaves = <<>>
  /\ last.delegate # None
  /\ last.result = "RootMismatch"

\* C10: siblings, start_idx, end_idx, leftmost_right_sibling and
\* rightmost_left_sibling of a NamespaceProof, of either variant, return what
\* the same-named operation of its inner Proof returns.
C10_AccessorsAgree ==
  LET inner == nsproof.proof
  IN /\ last.op = "NamespaceProof::siblings" => last.value = Proof_siblings(inner)
     /\ last.op = "NamespaceProof::start_idx" => last.value = Some(Proof_start_idx(inner))
     /\ last.op = "NamespaceProof::end_idx" => last.value = Some(Proof_end_idx(inner))
     /\ last.op = "NamespaceProof::leftmost_right_sibling" =>
          /\ last.value = Proof_leftmost_right_sibling(inner).val
          /\ (last.result = "Panic") = Proof_leftmost_right_sibling(inner).panic
     /\ last.op = "NamespaceProof::rightmost_left_sibling" =>
          /\ last.value = Proof_rightmost_left_sibling(inner).val
          /\ (last.result = "Panic") = Proof_rightmost_left_sibling(inner).panic

C10_Witness ==
  /\ last.op = "NamespaceProof::leftmost_right_sibling"
  /\ last.prior = [op |-> "NamespaceProof::convert_to_absence_proof", variant |-> "PresenceProof"]
  /\ nsproof.variant = "AbsenceProof"
  /\ last.value # None
  /\ compute_num_left_siblings(nsproof.proof.start) # compute_num_left_siblings(nsproof.proof.end)

====
